---- MODULE Spec2Model ----
(***************************************************************************)
(* State-machine model of mcp-stripe-monetization:                         *)
(*   - StripeMonetizationPlugin (src/src/core/plugin.ts): constructor,     *)
(*     initialize, beforeToolCall, afterToolCall and their mock helpers;   *)
(*   - the invoking layer of the example (src/unnamed/part_001,            *)
(*     simulateToolCall);                                                  *)
(*   - DatabaseManager over its adapters (src/src/core/database);          *)
(*   - StripeAPIEndpoints.handleWebhook (src/unnamed/part_008).            *)
(***************************************************************************)
EXTENDS Integers, Sequences, FiniteSets, TLC

(***************************************************************************)
(* Bounds of the model.                                                    *)
(***************************************************************************)
MaxInv == 2            \* invocations the invoking layer starts
MaxAfterRuns == 2      \* afterToolCall runs per invocation (1 + re-runs)
MaxCredits == 2        \* |credits| explored for a customer row
MaxDeliveries == 2     \* deliveries of one webhook event id
GateN == 1             \* calls the account's credits pay for (concurrency check)
GateExtra == 5         \* concurrent requests beyond GateN (concurrency check)
CallsIncluded == 1     \* calls a subscription period covers (overage check)
DiscountThreshold == 1 \* calls before the volume-discount tier applies
RetryBudget == 1       \* retries a webhook event is allowed
MaxUsageRecords == 2   \* rows the usage_records table may hold
Today == 2             \* the day of the clock, in days since the first record
MaxCallers == 3        \* concurrent callers of updateCustomerCredits

Invocations == 1..MaxInv
Slots == 1..(GateN + GateExtra)
(* authenticateUser, plugin.ts 296-300, draws a new random id on every
   call: invocation i gets an id of its own. *)
FreshUserId(i) == "user_" \o ToString(i)
UserIds == {FreshUserId(i) : i \in Slots}
CustomerIds == {"c1"}
EventIds == {"evt_1"}

Undefined == "undefined"
NoBilling == [userId |-> Undefined, amount |-> 0, billingModel |-> Undefined]

BillingModels == {"per-call", "subscription", "usage-based", "freemium", "credit-system"}
Environments == {"development", "production"}

(***************************************************************************)
(* Program constants.                                                      *)
(***************************************************************************)
PluginPriority == 150
PerCallAmount == 100
DefaultAmount == 100
CoveredAmount == 0
DiscountPercent == 10  \* the tier of the example configuration, part_001 58

VARIABLES
  given,          \* the StripeMonetizationConfig handed to the constructor
  config,         \* this.config of the plugin
  initialized,    \* this.initialized of the plugin
  inv,            \* per invocation: the invoking layer's position and data
  usageLog,       \* per invocation: the recordUsage calls made for it
  paymentLog,     \* per invocation: the processPayment calls made for it
  adapter,        \* DatabaseManager.adapter: none before initialize()
  customers,      \* rows of the customers table, by customer_id
  creditTransactions, \* rows of the credit_transactions table
  webhookEvents,  \* rows of the webhook_events table
  subscriptions,  \* rows of the subscriptions table
  dbResult,       \* how the last DatabaseManager call ended
  forwarded,      \* the last call DatabaseManager passed on to its adapter
  fetched,        \* the record the last DatabaseManager call returned
  deliveries,     \* per external event id: handleWebhook calls received
  webhookReply,   \* what the last handleWebhook call returned
  created,        \* how the last createStripeMonetizationPlugin call ended
  usageRecords,   \* rows of the usage_records table, in insertion order
  creditCalls     \* updateCustomerCredits calls in flight, by caller

pluginVars == <<given, config, initialized, inv, usageLog, paymentLog>>
dbVars ==
  <<adapter, customers, creditTransactions, webhookEvents, subscriptions,
    dbResult, forwarded, fetched>>
ledgerVars == <<customers, creditTransactions, webhookEvents, subscriptions>>
webhookVars == <<deliveries, webhookReply>>
otherVars == <<created, usageRecords, creditCalls>>

(***************************************************************************)
(* Configurations the setup helpers and callers can produce: a billing     *)
(* model and an environment; the three Stripe keys are present (the        *)
(* factory's validateConfig has accepted the object).                      *)
(***************************************************************************)
GivenConfigs ==
  [billingModel : BillingModels, environment : Environments,
   stripe : {"keys"}, debug : {TRUE}]

(* What the registration context of the hosting layer may carry as plugin
   configuration: nothing, the Stripe credentials alone, or the whole
   monetization configuration. *)
ConfigKeys == {"stripe", "billingModel", "environment"}
HostKeySets == {{}, {"stripe"}, ConfigKeys}
HostConfig(cfg, keys) ==
  [billingModel |-> IF "billingModel" \in keys THEN cfg.billingModel ELSE Undefined,
   environment |-> IF "environment" \in keys THEN cfg.environment ELSE Undefined,
   stripe |-> IF "stripe" \in keys THEN cfg.stripe ELSE Undefined]

(* constructor, plugin.ts 22-33: this.config = config is overwritten by
   { enabled, priority, debug }: stripe, billingModel and environment are
   not kept. *)
Constructor(cfg) ==
  [enabled |-> TRUE, priority |-> PluginPriority, debug |-> cfg.debug,
   stripe |-> Undefined, billingModel |-> Undefined, environment |-> Undefined]

(* super.initialize(context), plugin.ts 39: BasePlugin is the hosting
   library's class; the plugin configuration the host registered the plugin
   with (context) is merged over this.config. *)
SuperInitialize(cfg, hostCfg) ==
  [cfg EXCEPT
     !.stripe = IF hostCfg.stripe # Undefined THEN hostCfg.stripe ELSE @,
     !.billingModel = IF hostCfg.billingModel # Undefined THEN hostCfg.billingModel ELSE @,
     !.environment = IF hostCfg.environment # Undefined THEN hostCfg.environment ELSE @]

(* Mutant of ValidateConfig: every configuration is accepted. *)
ValidateConfigAlways(cfg) == TRUE

(* validateConfig, plugin.ts 261-271: the three Stripe keys must be set. *)
ValidateConfig(cfg) == cfg.stripe # Undefined

(* authenticateUser, plugin.ts 288-301: an authorization header or an auth
   argument authenticates; the user id is freshly drawn (Math.random) on
   every call. *)
AuthenticateUser(ctx, u) ==
  IF ~ctx.authorization
  THEN [authenticated |-> FALSE, userId |-> Undefined]
  ELSE [authenticated |-> TRUE, userId |-> u]

(* checkRateLimit, plugin.ts 303-306. *)
CheckRateLimit == [exceeded |-> FALSE]

(* checkBilling, plugin.ts 308-335. *)
CheckBilling(billingModel) ==
  CASE billingModel = "per-call" -> [canProceed |-> TRUE, amount |-> PerCallAmount]
    [] billingModel = "subscription" -> [canProceed |-> TRUE, amount |-> CoveredAmount]
    [] billingModel = "freemium" -> [canProceed |-> TRUE, amount |-> CoveredAmount]
    [] OTHER -> [canProceed |-> TRUE, amount |-> DefaultAmount]

(***************************************************************************)
(* Contexts the invoking layer passes: a context object with or without    *)
(* an authorization header, or no object at all (null), on which the       *)
(* first property access inside the hook's try block raises a TypeError.   *)
(***************************************************************************)
Contexts ==
  {c \in [isNull : BOOLEAN, authorization : BOOLEAN] : c.isNull => ~c.authorization}

(* Mutant of Refusal: the block is raised as an exception. *)
RefusalThrown(kind) ==
  [returns |-> "thrown", refusal |-> kind, billing |-> NoBilling, attached |-> FALSE]

(* The ToolCallResult { result: { isError: true, content } } that
   beforeToolCall returns when it blocks: plugin.ts 79-87, 93-101, 107-115,
   141-149. *)
Refusal(kind) ==
  [returns |-> "refusal", refusal |-> kind, billing |-> NoBilling, attached |-> FALSE]

(* The try block of beforeToolCall, plugin.ts 75-130, and its catch,
   132-150.  The result is what the hook returns: "proceed" (undefined) or
   a refusal (a ToolCallResult with isError), with the billing metadata it
   attached to the context. *)
BeforeToolCallResult(cfg, ctx, u) ==
  IF ctx.isNull
  THEN \* catch (error)
       IF cfg.environment = "development"
       THEN [returns |-> "proceed", refusal |-> "none", billing |-> NoBilling, attached |-> FALSE]
       ELSE Refusal("unavailable")
  ELSE LET authResult == AuthenticateUser(ctx, u)
           billingResult == CheckBilling(cfg.billingModel)
       IN  IF ~authResult.authenticated
           THEN Refusal("authentication")
           ELSE IF CheckRateLimit.exceeded
           THEN Refusal("rate-limit")
           ELSE IF ~billingResult.canProceed
           THEN Refusal("payment-required")
           ELSE [returns |-> "proceed", refusal |-> "none",
                 billing |-> [userId |-> authResult.userId,
                              amount |-> billingResult.amount,
                              billingModel |-> cfg.billingModel],
                 attached |-> TRUE]

(* Mutant of ChecksRun: all three checks run whatever the earlier ones
   found. *)
ChecksRunAll(cfg, ctx, u) == <<"authentication", "rate-limit", "billing">>

(* The checks the try block of beforeToolCall calls, in call order,
   plugin.ts 77, 91, 105: authenticateUser, then checkRateLimit unless the
   hook has returned, then checkBilling unless the hook has returned.  On a
   null context authenticateUser raises. *)
ChecksRun(cfg, ctx, u) ==
  IF ctx.isNull
  THEN <<"authentication">>
  ELSE IF ~AuthenticateUser(ctx, u).authenticated
  THEN <<"authentication">>
  ELSE IF CheckRateLimit.exceeded
  THEN <<"authentication", "rate-limit">>
  ELSE <<"authentication", "rate-limit", "billing">>

(* result.result._meta.billing and result.result.content of the tool
   result that afterToolCall is handed and returns. *)
NoMeta == [kind |-> "none", charged |-> FALSE, amount |-> 0]
NoContent == "none"
ToolOutput == "tool output"

NewInvocation ==
  [pc |-> "idle", ctx |-> [isNull |-> FALSE, authorization |-> FALSE],
   returned |-> "none", refusal |-> "none",
   billing |-> NoBilling, attached |-> FALSE, checks |-> <<>>, calls |-> <<>>,
   creditsBefore |-> [c \in CustomerIds |-> 0],
   executed |-> FALSE, isError |-> FALSE,
   content |-> NoContent, meta |-> NoMeta, afterRuns |-> 0]

PluginInit ==
  /\ given \in GivenConfigs
  /\ config = Constructor(given)
  /\ initialized = FALSE
  /\ inv = [i \in Slots |-> NewInvocation]
  /\ usageLog = [i \in Slots |-> <<>>]
  /\ paymentLog = [i \in Slots |-> <<>>]

(* initialize, plugin.ts 38-65. initializeDatabase, initializeStripe and
   initializeAuth are mocks that cannot fail. *)
Initialize(hostCfg) ==
  /\ LET cfg == SuperInitialize(config, hostCfg)
     IN  /\ config' = cfg
         /\ initialized' = IF ValidateConfig(cfg) THEN TRUE ELSE initialized
  /\ UNCHANGED <<given, inv, usageLog, paymentLog>>
  /\ UNCHANGED <<dbVars, webhookVars, otherVars>>

(* Mutant of Reserve: the gate takes the price out of every account. *)
ReserveHeld(rows, r) ==
  IF r.attached
  THEN [c \in DOMAIN rows |-> [rows[c] EXCEPT !.credits = @ - r.billing.amount]]
  ELSE rows

(* What letting a call proceed does to the stored accounts, plugin.ts
   118-130: the billing metadata is attached to the context and nothing is
   held or deducted. *)
Reserve(rows, r) == rows

(* beforeToolCall, plugin.ts 70-151, as simulateToolCall (part_001
   182-190, 212-214) calls it: a thrown error and a returned result both
   end the invocation without running the tool. *)
Credits == [c \in CustomerIds |-> customers[c].credits]

BeforeToolCall(i, ctx, u) ==
  /\ inv[i].pc = "idle"
  /\ customers' = IF initialized
                  THEN Reserve(customers, BeforeToolCallResult(config, ctx, u))
                  ELSE customers
  /\ IF ~initialized
     THEN inv' = [inv EXCEPT ![i].pc = "failed",
                             ![i].returned = "thrown",
                             ![i].creditsBefore = Credits]
     ELSE LET r == BeforeToolCallResult(config, ctx, u)
          IN  inv' = [inv EXCEPT
                ![i].pc = IF r.returns = "proceed" THEN "allowed" ELSE "blocked",
                ![i].ctx = ctx,
                ![i].returned = r.returns,
                ![i].refusal = r.refusal,
                ![i].billing = r.billing,
                ![i].attached = r.attached,
                ![i].checks = ChecksRun(config, ctx, u),
                ![i].creditsBefore = Credits]
  /\ UNCHANGED <<given, config, initialized, usageLog, paymentLog>>
  /\ UNCHANGED <<adapter, creditTransactions, webhookEvents, subscriptions,
                 dbResult, forwarded, fetched, webhookVars, otherVars>>

(* The hosting layer gives up an invocation after beforeToolCall let it
   proceed and never calls afterToolCall for it. *)
Cancel(i) ==
  /\ inv[i].pc = "allowed"
  /\ inv' = [inv EXCEPT ![i].pc = "cancelled"]
  /\ UNCHANGED <<given, config, initialized, usageLog, paymentLog>>
  /\ UNCHANGED <<dbVars, webhookVars, otherVars>>

(* The tool runs (part_001 192-201) only after beforeToolCall returned
   undefined; a tool may succeed or fail. *)
ExecuteTool(i, isError) ==
  /\ inv[i].pc = "allowed"
  /\ inv' = [inv EXCEPT ![i].pc = "executed", ![i].executed = TRUE,
                        ![i].isError = isError, ![i].content = ToolOutput]
  /\ UNCHANGED <<given, config, initialized, usageLog, paymentLog>>
  /\ UNCHANGED <<dbVars, webhookVars, otherVars>>

(* recordUsage, plugin.ts 337-340, and processPayment, 342-345: mocks that
   log their argument. *)
RecordUsage(log, usage) == Append(log, usage)
ProcessPayment(log, payment) == Append(log, payment)

(* Mutant of ShouldProcessPayment: a failed tool call is charged too. *)
ShouldProcessPaymentAlways(isError) == TRUE

(* plugin.ts 175: payment is processed if (!result.result.isError). *)
ShouldProcessPayment(isError) == ~isError

(* Mutant of BillingSummary: every call is reported as charged. *)
BillingSummaryCharged(c) ==
  [kind |-> "billing", charged |-> TRUE, amount |-> c.billing.amount]

(* The billing summary added to the result, plugin.ts 185-194; currency
   is the literal 'usd', toolName and timestamp are copied from the call. *)
BillingSummary(c) ==
  [kind |-> "billing", charged |-> ~c.isError, amount |-> c.billing.amount]

(* Mutant of ErrorMeta: a failed billing step is reported as charged. *)
ErrorMetaCharged == [kind |-> "error", charged |-> TRUE, amount |-> 0]

(* The metadata the catch adds, plugin.ts 204-210:
   { error: 'Billing processing failed', charged: false }. *)
ErrorMeta == [kind |-> "error", charged |-> FALSE, amount |-> 0]

(* Mutant of BillingCalls: the payment is processed first. *)
BillingCallsPaymentFirst(isError) == <<"processPayment", "recordUsage">>

(* The calls afterToolCall makes for billing data, in call order, plugin.ts
   164-182: await recordUsage, then await processPayment for a tool result
   that is no error. *)
BillingCalls(isError) ==
  IF ShouldProcessPayment(isError)
  THEN <<"recordUsage", "processPayment">>
  ELSE <<"recordUsage">>

(* afterToolCall, plugin.ts 156-214.  With a null context the read of
   context.metadata raises inside the try and the catch adds the error
   metadata. *)
AfterToolCall(i) ==
  /\ inv[i].pc \in {"executed", "done"}
  /\ inv[i].afterRuns < MaxAfterRuns
  /\ LET c == inv[i]
     IN  IF ~initialized
         THEN /\ inv' = [inv EXCEPT ![i].pc = "done", ![i].afterRuns = @ + 1]
              /\ UNCHANGED <<usageLog, paymentLog>>
         ELSE IF c.ctx.isNull
         THEN /\ inv' = [inv EXCEPT ![i].pc = "done", ![i].afterRuns = @ + 1,
                                    ![i].meta = ErrorMeta]
              /\ UNCHANGED <<usageLog, paymentLog>>
         ELSE IF ~c.attached
         THEN /\ inv' = [inv EXCEPT ![i].pc = "done", ![i].afterRuns = @ + 1]
              /\ UNCHANGED <<usageLog, paymentLog>>
         ELSE /\ usageLog' = [usageLog EXCEPT ![i] =
                   RecordUsage(@, [userId |-> c.billing.userId,
                                   amount |-> c.billing.amount,
                                   success |-> ~c.isError])]
              /\ paymentLog' = [paymentLog EXCEPT ![i] =
                   IF ShouldProcessPayment(c.isError)
                   THEN ProcessPayment(@, [userId |-> c.billing.userId,
                                           amount |-> c.billing.amount,
                                           billingModel |-> c.billing.billingModel])
                   ELSE @]
              /\ inv' = [inv EXCEPT ![i].pc = "done", ![i].afterRuns = @ + 1,
                                    ![i].calls = @ \o BillingCalls(c.isError),
                                    ![i].meta = BillingSummary(c)]
  /\ UNCHANGED <<given, config, initialized>>
  /\ UNCHANGED <<dbVars, webhookVars, otherVars>>

(***************************************************************************)
(* DatabaseManager (manager.ts) over the SQLite adapter (sqlite.ts) and    *)
(* the PostgreSQL adapter (manager.ts 642-838).                            *)
(***************************************************************************)
NoCall == [op |-> "none"]
Null == "null"
NoCustomer == [exists |-> FALSE, name |-> Null, credits |-> 0, status |-> "none"]
NoRecord == [found |-> FALSE, name |-> Null, credits |-> 0, status |-> "none"]
AdapterTypes == {"sqlite", "postgresql"}
CreditRange == (0 - MaxCredits)..MaxCredits
CustomerStatuses == {"active", "suspended", "deleted"}
TransactionTypes == {"purchase", "consumption", "refund", "bonus", "expiry"}

DbInit ==
  /\ adapter = "none"
  /\ customers = [c \in CustomerIds |-> NoCustomer]
  /\ creditTransactions = {}
  /\ webhookEvents = {}
  /\ subscriptions = {}
  /\ dbResult = "none"
  /\ forwarded = NoCall
  /\ fetched = NoRecord

(* DatabaseManager.initialize, manager.ts 102-137, with autoMigrate. *)
ManagerInitialize(type) ==
  /\ adapter = "none"
  /\ adapter' = type
  /\ dbResult' = "ok"
  /\ UNCHANGED <<customers, creditTransactions, webhookEvents, forwarded, fetched>>
  /\ UNCHANGED <<subscriptions, pluginVars, webhookVars, otherVars>>

(* Callers that may have an updateCustomerCredits call in flight. *)
Callers == 1..MaxCallers
NoCreditCall == [pc |-> "idle", id |-> "none", creditChange |-> 0]

(* validateCustomerData, manager.ts 431-449: email and status only. *)
ValidateCustomerData(customer) ==
  customer.emailValid /\ customer.status \in CustomerStatuses

(* SqliteAdapter.createCustomer, sqlite.ts 240-291: the row is inserted
   under a fresh uuid with credits = customerData.credits || 0 and the
   optional text columns as value || null (OrNull), and the record read
   back by getCustomer is returned. *)
OrNull(v) == IF v \in {Undefined, ""} THEN Null ELSE v

SqliteCreateCustomer(rows, id, customer) ==
  [rows EXCEPT ![id] = [exists |-> TRUE, name |-> OrNull(customer.name),
                        credits |-> customer.credits,
                        status |-> customer.status]]

(* mapRowToCustomer, sqlite.ts 748-775. *)
MapRowToCustomer(row) ==
  [found |-> TRUE, name |-> row.name, credits |-> row.credits, status |-> row.status]

(* SqliteAdapter.getCustomer, sqlite.ts 293-308: the mapped row, or null. *)
SqliteGetCustomer(rows, id) ==
  IF rows[id].exists THEN MapRowToCustomer(rows[id]) ELSE NoRecord

(* DatabaseManager.createCustomer, manager.ts 169-172. *)
CreateCustomer(id, customer) ==
  /\ adapter # "none"
  /\ ~customers[id].exists
  /\ forwarded' = IF ValidateCustomerData(customer)
                  THEN [op |-> "createCustomer", arg |-> customer, id |-> id]
                  ELSE NoCall
  /\ IF ~ValidateCustomerData(customer)
     THEN dbResult' = "ValidationError" /\ fetched' = NoRecord /\ UNCHANGED customers
     ELSE IF adapter = "sqlite"
     THEN /\ dbResult' = "ok"
          /\ customers' = SqliteCreateCustomer(customers, id, customer)
          /\ fetched' = SqliteGetCustomer(customers', id)
     ELSE dbResult' = "NotImplemented" /\ fetched' = NoRecord /\ UNCHANGED customers
  /\ UNCHANGED <<adapter, creditTransactions, webhookEvents>>
  /\ UNCHANGED <<subscriptions, pluginVars, webhookVars, otherVars>>

(* DatabaseManager.getCustomer, manager.ts 174-181, for a non-empty id. *)
GetCustomer(id) ==
  /\ adapter # "none"
  /\ forwarded' = [op |-> "getCustomer", id |-> id]
  /\ IF adapter = "sqlite"
     THEN dbResult' = "ok" /\ fetched' = SqliteGetCustomer(customers, id)
     ELSE dbResult' = "NotImplemented" /\ fetched' = NoRecord
  /\ UNCHANGED <<adapter, customers, creditTransactions, webhookEvents>>
  /\ UNCHANGED <<subscriptions, pluginVars, webhookVars, otherVars>>

(* validateCustomerUpdateData, manager.ts 451-469, for an update of the
   credits field. *)
ValidateCustomerUpdateData(updates) == updates.credits >= 0

(* SqliteAdapter.updateCustomer, sqlite.ts 327-386: SET credits = ?; a
   missing row raises 'Customer not found after update'. *)
SqliteUpdateCustomer(rows, id, updates) ==
  IF rows[id].exists THEN [rows EXCEPT ![id].credits = updates.credits] ELSE rows

(* DatabaseManager.updateCustomer, manager.ts 192-203. *)
UpdateCustomer(id, updates) ==
  /\ adapter # "none"
  /\ forwarded' = IF ValidateCustomerUpdateData(updates)
                  THEN [op |-> "updateCustomer", arg |-> updates] ELSE NoCall
  /\ IF ~ValidateCustomerUpdateData(updates)
     THEN dbResult' = "ValidationError" /\ fetched' = NoRecord /\ UNCHANGED customers
     ELSE IF adapter = "sqlite"
     THEN /\ customers' = SqliteUpdateCustomer(customers, id, updates)
          /\ dbResult' = IF customers[id].exists THEN "ok" ELSE "DatabaseError"
          /\ fetched' = SqliteGetCustomer(customers', id)
     ELSE dbResult' = "NotImplemented" /\ fetched' = NoRecord /\ UNCHANGED customers
  /\ UNCHANGED <<adapter, creditTransactions, webhookEvents>>
  /\ UNCHANGED <<subscriptions, pluginVars, webhookVars, otherVars>>

(* Mutant of SqliteUpdateCustomerCredits: SET credits = ?, the caller's
   value overwriting the row's. *)
SqliteSetCustomerCredits(rows, id, creditChange) ==
  IF rows[id].exists
  THEN [rows EXCEPT ![id].credits = creditChange]
  ELSE rows

(* SqliteAdapter.updateCustomerCredits, sqlite.ts 442-457: one UPDATE
   statement, SET credits = credits + ?; no row, no change, no error. *)
SqliteUpdateCustomerCredits(rows, id, creditChange) ==
  IF rows[id].exists
  THEN [rows EXCEPT ![id].credits = @ + creditChange]
  ELSE rows

(* DatabaseManager.updateCustomerCredits, manager.ts 224-232, as far as its
   await: the id is validated and the adapter's UPDATE is handed to the
   connection; other callers run before it completes. *)
CallUpdateCustomerCredits(p, id, creditChange) ==
  /\ adapter = "sqlite"
  /\ creditCalls[p].pc = "idle"
  /\ creditCalls' = [creditCalls EXCEPT
                       ![p] = [pc |-> "pending", id |-> id, creditChange |-> creditChange]]
  /\ forwarded' = [op |-> "updateCustomerCredits", arg |-> creditChange]
  /\ UNCHANGED <<adapter, customers, creditTransactions, webhookEvents, dbResult, fetched>>
  /\ UNCHANGED <<subscriptions, pluginVars, webhookVars, created, usageRecords>>

(* The UPDATE of a pending call runs, sqlite.ts 444-448: the connection
   executes one statement at a time, and the statement adds to the value
   the row has when it runs; the caller's await then resumes. *)
CompleteUpdateCustomerCredits(p) ==
  /\ creditCalls[p].pc = "pending"
  /\ customers' = SqliteUpdateCustomerCredits(customers, creditCalls[p].id,
                                              creditCalls[p].creditChange)
  /\ creditCalls' = [creditCalls EXCEPT ![p].pc = "done"]
  /\ dbResult' = "ok"
  /\ fetched' = NoRecord
  /\ UNCHANGED <<adapter, creditTransactions, webhookEvents, forwarded>>
  /\ UNCHANGED <<subscriptions, pluginVars, webhookVars, created, usageRecords>>

(* DatabaseManager.updateCustomerCredits, manager.ts 224-232: only the
   customer id is validated. *)
UpdateCustomerCredits(id, creditChange) ==
  /\ adapter # "none"
  /\ customers[id].credits + creditChange \in CreditRange
  /\ forwarded' = [op |-> "updateCustomerCredits", arg |-> creditChange]
  /\ IF adapter = "sqlite"
     THEN /\ customers' = SqliteUpdateCustomerCredits(customers, id, creditChange)
          /\ dbResult' = "ok"
     ELSE dbResult' = "NotImplemented" /\ UNCHANGED customers
  /\ fetched' = NoRecord
  /\ UNCHANGED <<adapter, creditTransactions, webhookEvents>>
  /\ UNCHANGED <<subscriptions, pluginVars, webhookVars, otherVars>>

(* validateCreditTransaction, manager.ts 559-589: customer id, type, a
   numeric amount, balanceAfter a number >= 0, description, timestamp. *)
ValidateCreditTransaction(transaction) ==
  /\ transaction.type \in TransactionTypes
  /\ transaction.balanceAfter >= 0

(* SqliteAdapter.createCreditTransaction, sqlite.ts 682-685, and
   PostgresAdapter.createCreditTransaction, manager.ts 791-793: throw
   Error('Method not implemented'); no row is written. *)
AdapterCreateCreditTransaction(rows, transaction) == rows

(* DatabaseManager.createCreditTransaction, manager.ts 353-356. *)
CreateCreditTransaction(transaction) ==
  /\ adapter # "none"
  /\ IF ~ValidateCreditTransaction(transaction)
     THEN /\ dbResult' = "ValidationError"
          /\ forwarded' = NoCall
          /\ UNCHANGED creditTransactions
     ELSE /\ forwarded' = [op |-> "createCreditTransaction", arg |-> transaction,
                           balanceBefore |-> customers[transaction.customerId].credits]
          /\ creditTransactions' = AdapterCreateCreditTransaction(creditTransactions, transaction)
          /\ dbResult' = "NotImplemented"
  /\ fetched' = NoRecord
  /\ UNCHANGED <<adapter, customers, webhookEvents>>
  /\ UNCHANGED <<subscriptions, pluginVars, webhookVars, otherVars>>

(* validateWebhookEvent, manager.ts 591-613. *)
WebhookStatuses == {"pending", "processed", "failed", "retrying"}
ValidateWebhookEvent(event) ==
  /\ event.status \in WebhookStatuses
  /\ event.retryCount >= 0

(* SqliteAdapter.createWebhookEvent, sqlite.ts 697-700, and
   PostgresAdapter.createWebhookEvent, manager.ts 803-805: throw
   Error('Method not implemented'). *)
AdapterCreateWebhookEvent(rows, event) == rows

(* DatabaseManager.createWebhookEvent, manager.ts 373-376. *)
CreateWebhookEvent(event) ==
  /\ adapter # "none"
  /\ IF ~ValidateWebhookEvent(event)
     THEN /\ dbResult' = "ValidationError"
          /\ forwarded' = NoCall
          /\ UNCHANGED webhookEvents
     ELSE /\ forwarded' = [op |-> "createWebhookEvent", arg |-> event]
          /\ webhookEvents' = AdapterCreateWebhookEvent(webhookEvents, event)
          /\ dbResult' = "NotImplemented"
  /\ fetched' = NoRecord
  /\ UNCHANGED <<adapter, customers, creditTransactions>>
  /\ UNCHANGED <<subscriptions, pluginVars, webhookVars, otherVars>>

(* SqliteAdapter.updateSubscription, sqlite.ts 662-665, and
   PostgresAdapter.updateSubscription, manager.ts 775-777: throw
   Error('Method not implemented'). *)
AdapterUpdateSubscription(rows, subscriptionId, updates) == rows

(* DatabaseManager.updateSubscription, manager.ts 312-320: the only write
   path for a subscription's period and call counter. *)
UpdateSubscription(subscriptionId, updates) ==
  /\ adapter # "none"
  /\ forwarded' = [op |-> "updateSubscription", id |-> subscriptionId, arg |-> updates]
  /\ subscriptions' = AdapterUpdateSubscription(subscriptions, subscriptionId, updates)
  /\ dbResult' = "NotImplemented"
  /\ fetched' = NoRecord
  /\ UNCHANGED <<adapter, customers, creditTransactions, webhookEvents>>
  /\ UNCHANGED <<pluginVars, webhookVars, otherVars>>

(* SqliteAdapter.updateWebhookEvent, sqlite.ts 702-705, and
   PostgresAdapter.updateWebhookEvent, manager.ts 807-809: throw
   Error('Method not implemented'). *)
AdapterUpdateWebhookEvent(rows, eventId, updates) == rows

(* DatabaseManager.updateWebhookEvent, manager.ts 378-386: only the event
   id is validated; the updates are passed on as they are. *)
UpdateWebhookEvent(eventId, updates) ==
  /\ adapter # "none"
  /\ forwarded' = [op |-> "updateWebhookEvent", id |-> eventId, arg |-> updates]
  /\ webhookEvents' = AdapterUpdateWebhookEvent(webhookEvents, eventId, updates)
  /\ dbResult' = "NotImplemented"
  /\ fetched' = NoRecord
  /\ UNCHANGED <<adapter, customers, creditTransactions>>
  /\ UNCHANGED <<subscriptions, pluginVars, webhookVars, otherVars>>

(* SqliteAdapter.retryWebhookEvent, sqlite.ts 712-715, and
   PostgresAdapter.retryWebhookEvent, manager.ts 815-817: throw
   Error('Method not implemented'). *)
AdapterRetryWebhookEvent(rows, eventId) == rows

(* DatabaseManager.retryWebhookEvent, manager.ts 392-400. *)
RetryWebhookEvent(eventId) ==
  /\ adapter # "none"
  /\ forwarded' = [op |-> "retryWebhookEvent", id |-> eventId]
  /\ webhookEvents' = AdapterRetryWebhookEvent(webhookEvents, eventId)
  /\ dbResult' = "NotImplemented"
  /\ fetched' = NoRecord
  /\ UNCHANGED <<adapter, customers, creditTransactions>>
  /\ UNCHANGED <<subscriptions, pluginVars, webhookVars, otherVars>>

(***************************************************************************)
(* StripeAPIEndpoints.handleWebhook, part_008 379-394: a mock that logs    *)
(* and answers; it reads neither payload nor signature and writes nothing. *)
(***************************************************************************)
WebhookInit ==
  /\ deliveries = [e \in EventIds |-> 0]
  /\ webhookReply = "none"

(* Mutant of HandleWebhookLedger: every delivery credits an account. *)
HandleWebhookLedgerApplied(rows, e) ==
  [rows EXCEPT !["c1"].credits = @ + 1]

(* The handler's effect on the stored accounts: none. *)
HandleWebhookLedger(rows, e) == rows

HandleWebhookReply(e, signatureValid) ==
  [received |-> TRUE, eventType |-> "payment_intent.succeeded", processed |-> TRUE]

HandleWebhook(e, signatureValid) ==
  /\ deliveries[e] < MaxDeliveries
  /\ deliveries' = [deliveries EXCEPT ![e] = @ + 1]
  /\ webhookReply' = HandleWebhookReply(e, signatureValid)
  /\ customers' = HandleWebhookLedger(customers, e)
  /\ UNCHANGED <<adapter, creditTransactions, webhookEvents, dbResult, forwarded, fetched>>
  /\ UNCHANGED <<subscriptions, pluginVars, otherVars>>

(***************************************************************************)
(* Inputs of the database operations.                                      *)
(***************************************************************************)
CustomerInputs ==
  [emailValid : BOOLEAN, name : {Undefined, "", "Ann"},
   status : {"active", "bogus"}, credits : {0 - 1, 0, 1}]
CustomerUpdates == [credits : CreditRange]
CreditChanges == {0 - 1, 1}
TransactionInputs ==
  [customerId : {"c1"}, type : {"purchase", "consumption", "adjustment"},
   amount : {0 - 1, 1}, balanceAfter : {0 - 1, 0, 1}]
WebhookEventInputs ==
  [stripeEventId : EventIds, status : {"pending", "retrying", "bogus"},
   retryCount : {0 - 1, 0, RetryBudget + 1}]
SubscriptionIds == {"sub_1"}
InitialCredits == 0
SubscriptionUpdates == [currentPeriod : {1, 2}, callsUsed : {0}]
WebhookUpdateInputs == [status : {"pending", "processed", "bogus"}]

(***************************************************************************)
(* Usage records and the deletion of accounts.  sqlite runs with           *)
(* PRAGMA foreign_keys = ON (sqlite.ts 51) and usage_records.customer_id   *)
(* references customers(customer_id) with no ON DELETE clause (129-146).   *)
(* Timestamps are day numbers; toISOString keeps their order.              *)
(***************************************************************************)
UsageRecordInputs ==
  [customerId : {"", "c1"}, toolName : {"tool"}, cost : {0 - 1, 1},
   day : {0, Today}]
RetentionInputs == {0, 1}
DeleteIds == CustomerIds \cup {""}

(* validateUsageRecord, manager.ts 471-501. *)
ValidateUsageRecord(record) ==
  /\ record.customerId # ""
  /\ record.toolName # ""
  /\ record.cost >= 0

(* The foreign key of usage_records: the rows that reference an account. *)
References(records, id) ==
  {k \in 1..Len(records) : records[k].customerId = id}

(* SqliteAdapter.createUsageRecord, sqlite.ts 501-540: one INSERT. *)
SqliteCreateUsageRecord(records, record) ==
  Append(records, [customerId |-> record.customerId, toolName |-> record.toolName,
                   cost |-> record.cost, day |-> record.day])

(* DatabaseManager.createUsageRecord, manager.ts 245-248; the INSERT fails
   on the foreign key when the account row does not exist. *)
CreateUsageRecord(record) ==
  /\ adapter # "none"
  /\ Len(usageRecords) < MaxUsageRecords
  /\ forwarded' = IF ValidateUsageRecord(record)
                  THEN [op |-> "createUsageRecord", arg |-> record]
                  ELSE NoCall
  /\ IF ~ValidateUsageRecord(record)
     THEN dbResult' = "ValidationError" /\ UNCHANGED usageRecords
     ELSE IF adapter = "sqlite"
     THEN IF customers[record.customerId].exists
          THEN /\ dbResult' = "ok"
               /\ usageRecords' = SqliteCreateUsageRecord(usageRecords, record)
          ELSE dbResult' = "DatabaseError" /\ UNCHANGED usageRecords
     ELSE dbResult' = "NotImplemented" /\ UNCHANGED usageRecords
  /\ fetched' = NoRecord
  /\ UNCHANGED <<adapter, customers, creditTransactions, webhookEvents>>
  /\ UNCHANGED <<subscriptions, pluginVars, webhookVars, created, creditCalls>>

(* SqliteAdapter.deleteOldUsageRecords, sqlite.ts 620-639:
   DELETE ... WHERE timestamp < cutoff, cutoff = now - retentionDays. *)
SqliteDeleteOldUsageRecords(records, retentionDays) ==
  SelectSeq(records, LAMBDA r : ~(r.day < Today - retentionDays))

(* DatabaseManager.deleteOldUsageRecords, manager.ts 270-278.  The adapter's
   db.run is util.promisify of sqlite3's run, which resolves to undefined
   (the change count is on the callback's this), so result.changes raises
   after the DELETE ran and the call ends with a DatabaseError. *)
DeleteOldUsageRecords(retentionDays) ==
  /\ adapter # "none"
  /\ forwarded' = IF retentionDays < 1
                  THEN NoCall
                  ELSE [op |-> "deleteOldUsageRecords", arg |-> retentionDays]
  /\ IF retentionDays < 1
     THEN dbResult' = "ValidationError" /\ UNCHANGED usageRecords
     ELSE IF adapter = "sqlite"
     THEN /\ dbResult' = "DatabaseError"
          /\ usageRecords' = SqliteDeleteOldUsageRecords(usageRecords, retentionDays)
     ELSE dbResult' = "NotImplemented" /\ UNCHANGED usageRecords
  /\ fetched' = NoRecord
  /\ UNCHANGED <<adapter, customers, creditTransactions, webhookEvents>>
  /\ UNCHANGED <<subscriptions, pluginVars, webhookVars, created, creditCalls>>

(* Mutant of SqliteDeleteCustomer: the foreign key is not enforced. *)
SqliteDeleteCustomerUnchecked(rows, records, id) ==
  [ok |-> TRUE, rows |-> [rows EXCEPT ![id] = NoCustomer]]

(* SqliteAdapter.deleteCustomer, sqlite.ts 388-401: DELETE FROM customers
   WHERE customer_id = ?; the statement fails on the foreign key while a
   usage record references the row. *)
SqliteDeleteCustomer(rows, records, id) ==
  IF References(records, id) # {}
  THEN [ok |-> FALSE, rows |-> rows]
  ELSE [ok |-> TRUE, rows |-> [rows EXCEPT ![id] = NoCustomer]]

(* DatabaseManager.deleteCustomer, manager.ts 205-218. *)
DeleteCustomer(id) ==
  /\ adapter # "none"
  /\ IF id = ""
     THEN /\ dbResult' = "ValidationError"
          /\ forwarded' = NoCall
          /\ UNCHANGED customers
     ELSE IF adapter # "sqlite"
     THEN /\ dbResult' = "NotImplemented"
          /\ forwarded' = [op |-> "getCustomer", id |-> id]
          /\ UNCHANGED customers
     ELSE IF ~SqliteGetCustomer(customers, id).found
     THEN /\ dbResult' = "CustomerNotFound"
          /\ forwarded' = [op |-> "getCustomer", id |-> id]
          /\ UNCHANGED customers
     ELSE LET r == SqliteDeleteCustomer(customers, usageRecords, id)
          IN  /\ dbResult' = IF r.ok THEN "ok" ELSE "DatabaseError"
              /\ forwarded' = [op |-> "deleteCustomer", id |-> id]
              /\ customers' = r.rows
  /\ fetched' = NoRecord
  /\ UNCHANGED <<adapter, creditTransactions, webhookEvents>>
  /\ UNCHANGED <<subscriptions, pluginVars, webhookVars, otherVars>>

(***************************************************************************)
(* The factory, utils/factory.ts, and the validateConfig of utils/helpers. *)
(***************************************************************************)
(* The configuration objects a caller may hand to the factory; Undefined
   as secret key also stands for an object without a stripe section. *)
FactoryConfigs ==
  [secretKey : {Undefined, "", "sk_test_123"},
   publishableKey : {"", "pk_test_123"},
   webhookSecret : {"", "whsec_123"},
   billingModel : {Undefined, "per_call", "subscription"},
   authentication : BOOLEAN,
   database : BOOLEAN]

Falsy(v) == v = Undefined \/ v = ""

(* validateConfig, helpers.ts: the first missing part is reported by
   throw new Error(message); "ok" when the function returns true. *)
HelpersValidateConfig(cfg) ==
  CASE Falsy(cfg.secretKey) -> "Stripe secret key is required"
    [] Falsy(cfg.publishableKey) -> "Stripe publishable key is required"
    [] Falsy(cfg.webhookSecret) -> "Stripe webhook secret is required"
    [] Falsy(cfg.billingModel) -> "Billing model is required"
    [] ~cfg.authentication -> "Authentication configuration is required"
    [] ~cfg.database -> "Database configuration is required"
    [] OTHER -> "ok"

(* The class of what validateConfig throws: the built-in Error. *)
HelpersErrorClass == "Error"

NotCreated ==
  [called |-> FALSE, plugin |-> FALSE, error |-> "none", message |-> "none",
   config |-> [secretKey |-> Undefined, publishableKey |-> "", webhookSecret |-> "",
               billingModel |-> Undefined, authentication |-> FALSE,
               database |-> FALSE]]

(* createStripeMonetizationPlugin, factory.ts: validateConfig(config), then
   new StripeMonetizationPlugin(config). *)
CreateStripeMonetizationPlugin(cfg) ==
  /\ LET verdict == HelpersValidateConfig(cfg)
     IN  created' =
           IF verdict = "ok"
           THEN [called |-> TRUE, plugin |-> TRUE, error |-> "none",
                 message |-> "none", config |-> cfg]
           ELSE [called |-> TRUE, plugin |-> FALSE, error |-> HelpersErrorClass,
                 message |-> verdict, config |-> cfg]
  /\ UNCHANGED <<pluginVars, dbVars, webhookVars, usageRecords, creditCalls>>

OtherInit ==
  /\ created = NotCreated
  /\ usageRecords = <<>>
  /\ creditCalls = [p \in Callers |-> NoCreditCall]

vars == <<pluginVars, dbVars, webhookVars, otherVars>>

Init == PluginInit /\ DbInit /\ WebhookInit /\ OtherInit

(* The plugin and its invoking layer. *)
Next ==
  \/ \E keys \in HostKeySets : Initialize(HostConfig(given, keys))
  \/ \E i \in Invocations, ctx \in Contexts : BeforeToolCall(i, ctx, FreshUserId(i))
  \/ \E i \in Invocations, e \in BOOLEAN : ExecuteTool(i, e)
  \/ \E i \in Invocations : Cancel(i)
  \/ \E i \in Invocations : AfterToolCall(i)

Spec == Init /\ [][Next]_vars

(* The storage layer and the webhook ingress. *)
NextDb ==
  \/ \E t \in AdapterTypes : ManagerInitialize(t)
  \/ \E id \in CustomerIds, c \in CustomerInputs : CreateCustomer(id, c)
  \/ \E id \in CustomerIds : GetCustomer(id)
  \/ \E id \in CustomerIds, u \in CustomerUpdates : UpdateCustomer(id, u)
  \/ \E id \in CustomerIds, d \in CreditChanges : UpdateCustomerCredits(id, d)
  \/ \E t \in TransactionInputs : CreateCreditTransaction(t)
  \/ \E sub \in SubscriptionIds, up \in SubscriptionUpdates : UpdateSubscription(sub, up)
  \/ \E ev \in WebhookEventInputs : CreateWebhookEvent(ev)
  \/ \E e \in EventIds, up \in WebhookUpdateInputs : UpdateWebhookEvent(e, up)
  \/ \E e \in EventIds : RetryWebhookEvent(e)
  \/ \E e \in EventIds, sig \in BOOLEAN : HandleWebhook(e, sig)

SpecDb == Init /\ [][NextDb]_vars

(* GateN + GateExtra concurrent, authenticated requests against a plugin
   whose storage holds an account with credits for exactly GateN calls. *)
AuthorizedContext == [isNull |-> FALSE, authorization |-> TRUE]

InitGate ==
  /\ PluginInit /\ WebhookInit /\ OtherInit
  /\ adapter = "sqlite"
  /\ customers = [c \in CustomerIds |->
        IF c = "c1"
        THEN [exists |-> TRUE, name |-> Null, credits |-> GateN * PerCallAmount,
              status |-> "active"]
        ELSE NoCustomer]
  /\ creditTransactions = {}
  /\ webhookEvents = {}
  /\ subscriptions = {}
  /\ dbResult = "ok"
  /\ forwarded = NoCall
  /\ fetched = NoRecord

NextGate ==
  \/ \E keys \in {{}, ConfigKeys} : Initialize(HostConfig(given, keys))
  \/ \E i \in Slots : BeforeToolCall(i, AuthorizedContext, FreshUserId(i))

SpecGate == InitGate /\ [][NextGate]_vars

(* Callers of the factory. *)
NextFactory ==
  \E cfg \in FactoryConfigs : CreateStripeMonetizationPlugin(cfg)

SpecFactory == Init /\ [][NextFactory]_vars

(* The storage layer's accounts and usage records. *)
NextUsage ==
  \/ \E t \in AdapterTypes : ManagerInitialize(t)
  \/ \E id \in CustomerIds, c \in CustomerInputs : CreateCustomer(id, c)
  \/ \E r \in UsageRecordInputs : CreateUsageRecord(r)
  \/ \E d \in RetentionInputs : DeleteOldUsageRecords(d)
  \/ \E id \in DeleteIds : DeleteCustomer(id)

SpecUsage == Init /\ [][NextUsage]_vars

(* MaxCallers concurrent updateCustomerCredits calls on one account of a
   sqlite store. *)
InitCredits ==
  /\ PluginInit /\ WebhookInit /\ OtherInit
  /\ adapter = "sqlite"
  /\ customers = [c \in CustomerIds |->
        [exists |-> TRUE, name |-> Null, credits |-> InitialCredits,
         status |-> "active"]]
  /\ creditTransactions = {}
  /\ webhookEvents = {}
  /\ subscriptions = {}
  /\ dbResult = "ok"
  /\ forwarded = NoCall
  /\ fetched = NoRecord

NextCredits ==
  \/ \E p \in Callers, id \in CustomerIds, d \in CreditChanges :
       CallUpdateCustomerCredits(p, id, d)
  \/ \E p \in Callers : CompleteUpdateCustomerCredits(p)

SpecCredits == InitCredits /\ [][NextCredits]_vars

(***************************************************************************)
(* Properties.                                                             *)
(***************************************************************************)
AccountCredits(u, credits) == IF u \in DOMAIN credits THEN credits[u] ELSE 0
Allowed(i) == inv[i].returned = "proceed"
Refused(i) == inv[i].returned = "refusal"

(* C1: in every reachable state every account's credit balance is >= 0. *)
BalanceNonNegative ==
  \A c \in CustomerIds : customers[c].credits >= 0

(* C2: once GateN + GateExtra concurrent reservation requests against an
   account with credits for exactly GateN calls have all been answered,
   exactly GateN were allowed and exactly GateExtra were refused. *)
ConcurrentReservationsExact ==
  (\A i \in Slots : inv[i].pc # "idle")
    => /\ Cardinality({i \in Slots : Allowed(i)}) = GateN
       /\ Cardinality({i \in Slots : Refused(i)}) = GateExtra

(* C3: an invocation the gate decided to block got a refusal as the
   returned value of beforeToolCall (not an exception, not "proceed") and
   its tool has not run; a tool runs only after "proceed". *)
BlockedIsRefusedAndNeverRuns ==
  \A i \in Slots :
    /\ inv[i].refusal # "none"
         => inv[i].returned = "refusal" /\ inv[i].pc = "blocked" /\ ~inv[i].executed
    /\ inv[i].executed => inv[i].returned = "proceed"

BlockedWitness ==
  \E i, j \in Slots :
    /\ inv[i].refusal = "authentication" /\ inv[i].pc = "blocked"
    /\ inv[j].refusal = "unavailable" /\ inv[j].pc = "blocked"

(* C4: under per-call, usage-based and credit-system billing no invocation
   is allowed while the account's balance is below a positive price. *)
BalanceModels == {"per-call", "usage-based", "credit-system"}
InsufficientBalanceBlocked ==
  \A i \in Slots :
    (Allowed(i) /\ inv[i].attached /\ inv[i].billing.billingModel \in BalanceModels)
      => ~(/\ inv[i].billing.amount > 0
           /\ AccountCredits(inv[i].billing.userId, inv[i].creditsBefore)
                < inv[i].billing.amount)

(* C5: for every invocation the gate allowed and that has completed, usage
   was recorded exactly once and its charge finalized exactly once, however
   often afterToolCall ran for it. *)
FinalizedExactlyOnce ==
  \A i \in Slots :
    (inv[i].attached /\ inv[i].pc = "done")
      => /\ Len(usageLog[i]) = 1
         /\ Len(paymentLog[i]) <= 1
         /\ (~inv[i].isError => Len(paymentLog[i]) = 1)

(* C6: delivering a webhook event that was already delivered leaves the
   ledger and subscription state (accounts, credit transactions, stored
   webhook events) exactly as the first delivery left it. *)
RedeliveryLeavesLedger ==
  [][\A e \in EventIds :
       (deliveries[e] >= 1 /\ deliveries'[e] = deliveries[e] + 1)
         => ledgerVars' = ledgerVars]_vars

RedeliveredWitness ==
  deliveries["evt_1"] >= 2 /\ adapter = "sqlite" /\ customers["c1"].exists

(* C7: every credit transaction the manager accepts for storage carries
   balanceAfter = the account's balance immediately before it + amount. *)
BalanceAfterConsistent ==
  forwarded.op = "createCreditTransaction"
    => forwarded.arg.balanceAfter = forwarded.balanceBefore + forwarded.arg.amount

(* C8: once an allowed invocation whose tool failed has completed, the
   account balances are exactly what they were before the gate ran, and
   nothing was charged for it. *)
FailedToolRestoresBalance ==
  \A i \in Slots :
    (inv[i].attached /\ inv[i].pc = "done" /\ inv[i].isError)
      => Credits = inv[i].creditsBefore /\ Len(paymentLog[i]) = 0

FailedToolWitness ==
  \E i \in Slots :
    /\ inv[i].attached /\ inv[i].pc = "done" /\ inv[i].isError
    /\ inv[i].billing.amount > 0 /\ Len(usageLog[i]) >= 1

(* C9: when a step of the gate raises an error, beforeToolCall lets the
   call proceed exactly when the plugin was configured with environment
   'development', and returns a refusal in every other configuration. *)
GateErrorFailsClosed ==
  \A i \in Slots :
    (inv[i].ctx.isNull /\ inv[i].returned \in {"proceed", "refusal"})
      => (Allowed(i) <=> given.environment = "development")

(* C10: under subscription billing, of the invocations allowed in one
   period beyond CallsIncluded, exactly CallsIncluded are charged 0 and all
   the others are charged a positive overage rate. *)
SubscriptionOverage ==
  LET S == {i \in Slots : Allowed(i) /\ inv[i].attached
                            /\ inv[i].billing.billingModel = "subscription"}
  IN  Cardinality(S) > CallsIncluded
        => /\ Cardinality({i \in S : inv[i].billing.amount = 0}) = CallsIncluded
           /\ Cardinality({i \in S : inv[i].billing.amount > 0})
                = Cardinality(S) - CallsIncluded

(* C11: under per-call billing with a volume-discount tier of
   DiscountThreshold calls and DiscountPercent percent, of the calls
   allowed in one period beyond the threshold exactly DiscountThreshold are
   charged the full price and all the others the discounted price. *)
DiscountedAmount == (PerCallAmount * (100 - DiscountPercent)) \div 100
PerCallInvocations ==
  {i \in Slots : Allowed(i) /\ inv[i].attached
                   /\ inv[i].billing.billingModel = "per-call"}
VolumeDiscountApplied ==
  Cardinality(PerCallInvocations) > DiscountThreshold
    => /\ Cardinality({i \in PerCallInvocations :
                         inv[i].billing.amount = PerCallAmount}) = DiscountThreshold
       /\ Cardinality({i \in PerCallInvocations :
                         inv[i].billing.amount = DiscountedAmount})
            = Cardinality(PerCallInvocations) - DiscountThreshold

(* C12: getCustomer right after a successful createCustomer, with the id
   it returned, yields a record whose business fields equal the input's;
   an absent optional field may come back as null. *)
SameField(given_, got) == given_ = got \/ (given_ = Undefined /\ got = Null)
CreateThenGetRoundTrip ==
  [][(/\ forwarded.op = "createCustomer" /\ dbResult = "ok"
      /\ forwarded'.op = "getCustomer" /\ forwarded'.id = forwarded.id)
       => /\ fetched'.found
          /\ SameField(forwarded.arg.name, fetched'.name)
          /\ fetched'.credits = forwarded.arg.credits
          /\ fetched'.status = forwarded.arg.status]_vars

(* C13: a webhook event only ever has one of the statuses pending,
   processed and failed: every status the manager accepts for a stored
   event, at creation or in an update, is one of the three, and a new event
   starts as pending. *)
EventStatuses == {"pending", "processed", "failed"}
WebhookStatusMachine ==
  /\ forwarded.op = "createWebhookEvent" => forwarded.arg.status = "pending"
  /\ forwarded.op = "updateWebhookEvent" => forwarded.arg.status \in EventStatuses
  /\ \A ev \in webhookEvents : ev.status \in EventStatuses

(* C14: a retry of a webhook event ends with the event stored with its
   retry count raised, within RetryBudget; and no event is accepted with a
   retry count beyond RetryBudget. *)
RetryCountedWithinBudget ==
  /\ forwarded.op = "retryWebhookEvent"
       => /\ dbResult = "ok"
          /\ \E ev \in webhookEvents :
               /\ ev.stripeEventId = forwarded.id
               /\ ev.retryCount >= 1 /\ ev.retryCount <= RetryBudget
  /\ forwarded.op = "createWebhookEvent" => forwarded.arg.retryCount <= RetryBudget

(* C15: a rollover call (the update of a subscription's period and call
   counter) ends normally with the subscription stored in the period it
   names, so that a further call within that period changes nothing. *)
RolloverIsNoOpWithinPeriod ==
  forwarded.op = "updateSubscription"
    => /\ dbResult = "ok"
       /\ \E sub \in subscriptions :
            /\ sub.id = forwarded.id
            /\ sub.currentPeriod = forwarded.arg.currentPeriod
            /\ sub.callsUsed = forwarded.arg.callsUsed

(* C16: an invocation cancelled after the gate allowed it and before the
   post hook ran holds no credits: the account balances are what they were
   before the gate ran, and nothing was recorded or charged for it. *)
CancelledHoldsNothing ==
  \A i \in Slots :
    inv[i].pc = "cancelled"
      => /\ Credits = inv[i].creditsBefore
         /\ Len(usageLog[i]) = 0 /\ Len(paymentLog[i]) = 0

CancelledWitness ==
  \E i \in Slots :
    /\ inv[i].pc = "cancelled" /\ inv[i].attached /\ inv[i].billing.amount > 0

(* C17: whichever backend DatabaseManager was initialized with, an
   accepted customer operation ends as it does on SQLite, where
   createCustomer, getCustomer and updateCustomerCredits complete. *)
SqliteCompletes == {"createCustomer", "getCustomer", "updateCustomerCredits"}
BackendsAgree ==
  \A type \in AdapterTypes :
    (adapter = type /\ forwarded.op \in SqliteCompletes) => dbResult = "ok"

(* C18: for every completed invocation that passed the gate, the result
   afterToolCall returned is the tool's result with a billing summary in
   which charged is true exactly when the tool did not fail and amount is
   the price resolved before the call. *)
BillingSummaryReturned ==
  \A i \in Slots :
    (inv[i].attached /\ inv[i].pc = "done")
      => /\ inv[i].content = ToolOutput
         /\ inv[i].meta.kind = "billing"
         /\ inv[i].meta.charged = ~inv[i].isError
         /\ inv[i].meta.amount = inv[i].billing.amount

BillingSummaryWitness ==
  \E i, j \in Slots :
    /\ inv[i].attached /\ inv[i].pc = "done" /\ inv[i].isError
    /\ inv[j].attached /\ inv[j].pc = "done" /\ ~inv[j].isError
    /\ inv[j].billing.amount > 0

(* C19: every usage record written for an invocation whose tool failed
   has success = false and cost 0, and no payment is processed for it. *)
FailedToolRecordedAtNoCost ==
  \A i \in Slots :
    inv[i].isError
      => /\ inv[i].pc = "done" /\ inv[i].attached => Len(usageLog[i]) >= 1
         /\ \A k \in 1..Len(usageLog[i]) :
              ~usageLog[i][k].success /\ usageLog[i][k].amount = 0
         /\ Len(paymentLog[i]) = 0

(* C20: when a billing step of afterToolCall raised an error, the result
   it returned still carries the tool's content, with billing metadata
   that reports an error and charged = false. *)
BillingFailureKeepsResult ==
  \A i \in Slots :
    (inv[i].pc = "done" /\ inv[i].ctx.isNull /\ initialized)
      => /\ inv[i].content = ToolOutput
         /\ inv[i].meta.kind = "error"
         /\ ~inv[i].meta.charged

BillingFailureWitness ==
  \E i \in Slots :
    inv[i].pc = "done" /\ inv[i].meta.kind = "error" /\ inv[i].content = ToolOutput

(* C21: an error in the post hook leaves the balances as they were, and
   committing again for the same invocation (a further afterToolCall run)
   leaves its usage and its charge applied once. *)
RetriedCommitAppliesOnce ==
  \A i \in Slots :
    /\ (inv[i].pc = "done" /\ inv[i].meta.kind = "error")
         => Credits = inv[i].creditsBefore
    /\ (inv[i].pc = "done" /\ inv[i].attached /\ inv[i].afterRuns >= 2)
         => /\ Len(usageLog[i]) = 1
            /\ Len(paymentLog[i]) = IF inv[i].isError THEN 0 ELSE 1

(* C22: createStripeMonetizationPlugin called with a configuration whose
   Stripe secret key is empty throws a ValidationError and returns no
   plugin. *)
EmptySecretKeyThrowsValidationError ==
  (created.called /\ created.config.secretKey = "")
    => (created.error = "ValidationError" /\ ~created.plugin)

(* C23: usage records are append-only: no operation modifies or removes a
   record once it is written. *)
UsageRecordsAppendOnly ==
  [][/\ Len(usageRecords') >= Len(usageRecords)
     /\ SubSeq(usageRecords', 1, Len(usageRecords)) = usageRecords]_vars

(* C24: an account row is never removed while a usage record references
   it: every usage record's account row exists, deleteCustomer of such an
   account removing nothing. *)
ReferencedAccountNeverDeleted ==
  \A k \in 1..Len(usageRecords) : customers[usageRecords[k].customerId].exists

DeleteRefusedWitness ==
  /\ forwarded = [op |-> "deleteCustomer", id |-> "c1"]
  /\ dbResult = "DatabaseError"
  /\ References(usageRecords, "c1") # {}
  /\ customers["c1"].exists

(* C25: malformed input is rejected with a ValidationError before the
   adapter is called: a call that ends with a ValidationError forwarded
   nothing, and no account data with an invalid email, an unknown status or
   negative credits is ever forwarded to the adapter. *)
MalformedInputRejected ==
  /\ dbResult = "ValidationError" => forwarded = NoCall
  /\ forwarded.op = "createCustomer"
       => /\ forwarded.arg.emailValid
          /\ forwarded.arg.status \in CustomerStatuses
          /\ forwarded.arg.credits >= 0
  /\ forwarded.op = "updateCustomer" => forwarded.arg.credits >= 0

(* C26: a step changes an account's balance exactly when it appends one
   credit transaction: no balance change without its transaction and no
   transaction without its balance change. *)
BalanceChangeHasTransaction ==
  [][LET balanceChanged ==
           \E c \in CustomerIds : customers'[c].credits # customers[c].credits
         appended == creditTransactions' \ creditTransactions
     IN  /\ creditTransactions \subseteq creditTransactions'
         /\ balanceChanged <=> Cardinality(appended) = 1
         /\ Cardinality(appended) <= 1]_vars

(* C27: beforeToolCall runs authentication, rate limit and billing in that
   order and stops at the first check that fails; the billing metadata is
   attached only when all three ran and passed. *)
CheckOrder == <<"authentication", "rate-limit", "billing">>

CheckOfRefusal(kind) ==
  CASE kind = "authentication" -> "authentication"
    [] kind = "rate-limit" -> "rate-limit"
    [] kind = "payment-required" -> "billing"
    [] OTHER -> "none"

ChecksInOrderUntilFailure ==
  \A i \in Slots :
    (inv[i].pc \notin {"idle", "failed"} /\ ~inv[i].ctx.isNull)
      => /\ Len(inv[i].checks) >= 1
         /\ inv[i].checks = SubSeq(CheckOrder, 1, Len(inv[i].checks))
         /\ inv[i].refusal # "none"
              => inv[i].checks[Len(inv[i].checks)] = CheckOfRefusal(inv[i].refusal)
         /\ ~inv[i].ctx.authorization
              => (inv[i].refusal = "authentication" /\ inv[i].checks = <<"authentication">>)
         /\ inv[i].attached
              => (inv[i].checks = CheckOrder /\ inv[i].refusal = "none"
                  /\ inv[i].ctx.authorization)
         /\ inv[i].refusal = "none" => inv[i].attached

ChecksWitness ==
  \E i, j \in Slots :
    /\ inv[i].pc = "blocked" /\ inv[i].refusal = "authentication"
    /\ inv[j].pc = "allowed" /\ inv[j].attached /\ inv[j].checks = CheckOrder

(* C28: while the plugin is not initialized no beforeToolCall lets an
   invocation proceed (the hook throws), and the initialized flag is set
   only by an initialize whose configuration carries the Stripe keys. *)
UninitializedNeverProceeds ==
  [][/\ ~initialized
          => \A i \in Slots :
               inv'[i].pc # inv[i].pc
                 => (inv'[i].pc = "failed" /\ inv'[i].returned = "thrown"
                     /\ ~inv'[i].attached)
     /\ initialized' => config'.stripe # Undefined]_vars

UninitializedWitness ==
  \E i \in Slots :
    /\ ~initialized
    /\ inv[i].pc = "failed"
    /\ inv[i].returned = "thrown"

(* C29: in afterToolCall the usage record is written before any payment
   is processed, and a payment is processed only for a tool result that is
   not an error. *)
UsageBeforePayment ==
  \A i \in Slots :
    LET calls == inv[i].calls
    IN  /\ \A k \in 1..Len(calls) :
             calls[k] = "processPayment"
               => (k > 1 /\ calls[k - 1] = "recordUsage" /\ ~inv[i].isError)
        /\ Len(paymentLog[i]) > 0 => ~inv[i].isError
        /\ Len(paymentLog[i]) <= Len(usageLog[i])
        /\ Len(paymentLog[i]) = Cardinality({k \in 1..Len(calls) : calls[k] = "processPayment"})
        /\ Len(usageLog[i]) = Cardinality({k \in 1..Len(calls) : calls[k] = "recordUsage"})

UsageBeforePaymentWitness ==
  \E i, j \in Slots :
    /\ inv[i].pc = "done" /\ ~inv[i].isError /\ Len(paymentLog[i]) = 1
    /\ inv[j].pc = "done" /\ inv[j].isError /\ Len(usageLog[j]) = 1
    /\ paymentLog[j] = <<>>

(* C30: concurrent updateCustomerCredits calls on one account lose no
   update: the balance is the initial balance plus the sum of the changes
   of all completed calls, so when all calls have completed it is the
   initial balance plus the sum of all changes. *)
RECURSIVE SumOfChanges(_, _)
SumOfChanges(calls, ps) ==
  IF ps = {}
  THEN 0
  ELSE LET p == CHOOSE q \in ps : TRUE
       IN  (IF calls[p].pc = "done" THEN calls[p].creditChange ELSE 0)
             + SumOfChanges(calls, ps \ {p})

NoLostCreditUpdate ==
  \A c \in CustomerIds :
    customers[c].credits = InitialCredits + SumOfChanges(creditCalls, Callers)

AllCreditCallsDoneWitness ==
  /\ \A p \in Callers : creditCalls[p].pc = "done"
  /\ \E p, q \in Callers : p # q /\ creditCalls[p].creditChange = creditCalls[q].creditChange
  /\ customers["c1"].credits # InitialCredits
====
